---- MODULE Spec2Model ----
(***************************************************************************)
(* Model of the LOGO parser of src/src/main.rs: the recursive function     *)
(* build and its helpers, run by main over a token queue and a matching    *)
(* stack.  The recursion of build is modelled by an explicit sequence of   *)
(* activation frames; one action per arm of build's match, one for the     *)
(* return of a nested build, one for the return to main and one for main's *)
(* final inspection of the matching stack.                                 *)
(***************************************************************************)
EXTENDS Integers, Sequences, FiniteSets, TLC

VARIABLES matches, input, tokens, stack, frames, opened, exps, pc, err

vars == <<matches, input, tokens, stack, frames, opened, exps, pc, err>>

----------------------------------------------------------------------------
(* Bounds of the model.                                                    *)

\* longest token sequence drawn from the whole token alphabet
MaxLen == 3
\* largest number of regex matches in a program text handed to the lexer
MaxMatches == 2
\* largest number of grammatical chunks (commands, openers, closers) in a program
MaxChunks == 4

----------------------------------------------------------------------------
(* enum Token                                                              *)

Token_Forward == [type |-> "Forward"]
Token_Back == [type |-> "Back"]
Token_Right == [type |-> "Right"]
Token_Left == [type |-> "Left"]
Token_Repeat == [type |-> "Repeat"]
Token_LBracket == [type |-> "LBracket"]
Token_RBracket == [type |-> "RBracket"]
Token_To == [type |-> "To"]
Token_End == [type |-> "End"]
Token_If == [type |-> "If"]
Token_Gtr == [type |-> "Gtr"]
Token_Less == [type |-> "Less"]
Token_Number(n) == [type |-> "Number", n |-> n]
Token_Ident(s) == [type |-> "Ident", s |-> s]
Token_Var(s) == [type |-> "Var", s |-> s]

\* Option::None of pop_front / get(0)
NoToken == [type |-> "None"]

(* enum Expression                                                         *)

Expression_Number(n) == [kind |-> "Number", n |-> n]
Expression_Ident(s) == [kind |-> "Ident", s |-> s]
Expression_Var(s) == [kind |-> "Var", s |-> s]
Expression_Directional(k, e) == [kind |-> k, arg |-> e]
Expression_Repeat(count, body) == [kind |-> "Repeat", count |-> count, body |-> body]
Expression_To(ident, args, body) ==
    [kind |-> "To", ident |-> ident, args |-> args, body |-> body]
Expression_Call(ident, args) == [kind |-> "Call", ident |-> ident, args |-> args]

NoExp == [kind |-> "None"]

(* The panics of the program: kind, offending token, expected construct.   *)

NoErr == [kind |-> "none", token |-> NoToken, expected |-> ""]
Panic(kind, token, expected) == [kind |-> kind, token |-> token, expected |-> expected]

DirectionalTypes == {"Forward", "Back", "Right", "Left"}

----------------------------------------------------------------------------
(* The helpers of build, as functions of the queue and stack they are      *)
(* handed.  Each returns the queue and stack as it leaves them, the        *)
(* expression parts it built, and the panic it raised (NoErr if none).     *)

\* build_var that peeks (tokens.get(0)) where the code pops the operand
build_var_peek(toks) ==
    IF toks = <<>>
    THEN [err |-> Panic("UnexpectedEndOfInput", NoToken, "variable"),
          tokens |-> toks, exp |-> NoExp]
    ELSE LET x == Head(toks) IN
         CASE x.type = "Number" ->
                [err |-> NoErr, tokens |-> toks, exp |-> Expression_Number(x.n)]
           [] x.type = "Var" ->
                [err |-> NoErr, tokens |-> toks, exp |-> Expression_Var(x.s)]
           [] OTHER ->
                [err |-> Panic("UnexpectedToken", x, "variable"),
                 tokens |-> toks, exp |-> NoExp]

\* build_var with an arm that takes an Ident as the operand
build_var_accept_ident(toks) ==
    IF toks = <<>>
    THEN [err |-> Panic("UnexpectedEndOfInput", NoToken, "variable"),
          tokens |-> toks, exp |-> NoExp]
    ELSE LET x == Head(toks) IN
         CASE x.type = "Number" ->
                [err |-> NoErr, tokens |-> Tail(toks), exp |-> Expression_Number(x.n)]
           [] x.type \in {"Var", "Ident"} ->
                [err |-> NoErr, tokens |-> Tail(toks), exp |-> Expression_Var(x.s)]
           [] OTHER ->
                [err |-> Panic("UnexpectedToken", x, "variable"),
                 tokens |-> Tail(toks), exp |-> NoExp]

\* fn build_var
build_var(toks) ==
    IF toks = <<>>
    THEN [err |-> Panic("UnexpectedEndOfInput", NoToken, "variable"),
          tokens |-> toks, exp |-> NoExp]
    ELSE LET x == Head(toks) IN
         CASE x.type = "Number" ->
                [err |-> NoErr, tokens |-> Tail(toks), exp |-> Expression_Number(x.n)]
           [] x.type = "Var" ->
                [err |-> NoErr, tokens |-> Tail(toks), exp |-> Expression_Var(x.s)]
           [] OTHER ->
                [err |-> Panic("UnexpectedToken", x, "variable"),
                 tokens |-> Tail(toks), exp |-> NoExp]

\* fn build_name
build_name(toks) ==
    IF toks = <<>>
    THEN [err |-> Panic("UnexpectedEndOfInput", NoToken, "identifier"),
          tokens |-> toks, exp |-> NoExp]
    ELSE LET x == Head(toks) IN
         IF x.type = "Ident"
         THEN [err |-> NoErr, tokens |-> Tail(toks), exp |-> Expression_Ident(x.s)]
         ELSE [err |-> Panic("UnexpectedToken", x, "identifier"),
               tokens |-> Tail(toks), exp |-> NoExp]

\* the loop of build_to: the run of Var tokens at the front of the queue
RECURSIVE to_args(_, _)
to_args(toks, args) ==
    IF toks # <<>> /\ Head(toks).type = "Var"
    THEN to_args(Tail(toks), Append(args, Expression_Var(Head(toks).s)))
    ELSE [tokens |-> toks, args |-> args]

\* the loop of build_call: the run of Var and Number tokens at the front
RECURSIVE call_args(_, _)
call_args(toks, args) ==
    IF toks # <<>> /\ Head(toks).type = "Var"
    THEN call_args(Tail(toks), Append(args, Expression_Var(Head(toks).s)))
    ELSE IF toks # <<>> /\ Head(toks).type = "Number"
    THEN call_args(Tail(toks), Append(args, Expression_Number(Head(toks).n)))
    ELSE [tokens |-> toks, args |-> args]

\* build_call whose loop does not start on a Var: no Some(Token::Var(x)) arm at the first token
build_call_numbers_only(toks, name) ==
    LET rest == IF toks # <<>> /\ Head(toks).type = "Var" THEN <<>> ELSE toks
        r == call_args(rest, <<>>) IN
    [tokens |-> IF rest = <<>> THEN toks ELSE r.tokens,
     exp |-> Expression_Call(Expression_Ident(name), r.args)]

\* build_call that puts the name token back in front of the queue after
\* it has taken arguments
build_call_requeue(toks, name) ==
    LET r == call_args(toks, <<>>) IN
    [tokens |-> IF r.args = <<>> THEN r.tokens ELSE <<Token_Ident(name)>> \o r.tokens,
     exp |-> Expression_Call(Expression_Ident(name), r.args)]

\* fn build_call
build_call(toks, name) ==
    LET r == call_args(toks, <<>>) IN
    [tokens |-> r.tokens, exp |-> Expression_Call(Expression_Ident(name), r.args)]

\* build_repeat without stack.push_back(Token::LBracket)
build_repeat_nopush(toks, stk) ==
    LET v == build_var(toks) IN
    IF v.err.kind # "none"
    THEN [err |-> v.err, tokens |-> v.tokens, stack |-> stk, count |-> NoExp]
    ELSE IF v.tokens = <<>>
         THEN [err |-> Panic("UnexpectedEndOfInput", NoToken, "["),
               tokens |-> v.tokens, stack |-> stk, count |-> v.exp]
         ELSE IF Head(v.tokens).type = "LBracket"
         THEN [err |-> NoErr, tokens |-> Tail(v.tokens), stack |-> stk,
               count |-> v.exp]
         ELSE [err |-> Panic("UnexpectedToken", Head(v.tokens), "["),
               tokens |-> Tail(v.tokens), stack |-> stk, count |-> v.exp]

\* build_repeat that takes whatever token follows the count as the [
build_repeat_nocheck(toks, stk) ==
    LET v == build_var(toks) IN
    IF v.err.kind # "none"
    THEN [err |-> v.err, tokens |-> v.tokens, stack |-> stk, count |-> NoExp]
    ELSE LET pushed == Append(stk, Token_LBracket) IN
         IF v.tokens = <<>>
         THEN [err |-> Panic("UnexpectedEndOfInput", NoToken, "["),
               tokens |-> v.tokens, stack |-> pushed, count |-> v.exp]
         ELSE [err |-> NoErr, tokens |-> Tail(v.tokens), stack |-> pushed,
               count |-> v.exp]

\* build_repeat that pushes the closer Token::RBracket for the block
build_repeat_push_rbracket(toks, stk) ==
    LET v == build_var(toks) IN
    IF v.err.kind # "none"
    THEN [err |-> v.err, tokens |-> v.tokens, stack |-> stk, count |-> NoExp]
    ELSE LET pushed == Append(stk, Token_RBracket) IN
         IF v.tokens = <<>>
         THEN [err |-> Panic("UnexpectedEndOfInput", NoToken, "["),
               tokens |-> v.tokens, stack |-> pushed, count |-> v.exp]
         ELSE IF Head(v.tokens).type = "LBracket"
         THEN [err |-> NoErr, tokens |-> Tail(v.tokens), stack |-> pushed,
               count |-> v.exp]
         ELSE [err |-> Panic("UnexpectedToken", Head(v.tokens), "["),
               tokens |-> Tail(v.tokens), stack |-> pushed, count |-> v.exp]

\* fn build_repeat, up to its recursive call of build
build_repeat(toks, stk) ==
    LET v == build_var(toks) IN
    IF v.err.kind # "none"
    THEN [err |-> v.err, tokens |-> v.tokens, stack |-> stk, count |-> NoExp]
    ELSE LET pushed == Append(stk, Token_LBracket) IN
         IF v.tokens = <<>>
         THEN [err |-> Panic("UnexpectedEndOfInput", NoToken, "["),
               tokens |-> v.tokens, stack |-> pushed, count |-> v.exp]
         ELSE IF Head(v.tokens).type = "LBracket"
         THEN [err |-> NoErr, tokens |-> Tail(v.tokens), stack |-> pushed,
               count |-> v.exp]
         ELSE [err |-> Panic("UnexpectedToken", Head(v.tokens), "["),
               tokens |-> Tail(v.tokens), stack |-> pushed, count |-> v.exp]

\* build_to without stack.push_back(Token::To)
build_to_nopush(toks, stk) ==
    LET nm == build_name(toks) IN
    IF nm.err.kind # "none"
    THEN [err |-> nm.err, tokens |-> nm.tokens, stack |-> stk,
          ident |-> NoExp, args |-> <<>>]
    ELSE LET r == to_args(nm.tokens, <<>>) IN
         [err |-> NoErr, tokens |-> r.tokens, stack |-> stk,
          ident |-> nm.exp, args |-> r.args]

\* build_to that pushes Token::To before it parses the name
build_to_push_first(toks, stk) ==
    LET nm == build_name(toks) IN
    IF nm.err.kind # "none"
    THEN [err |-> nm.err, tokens |-> nm.tokens, stack |-> Append(stk, Token_To),
          ident |-> NoExp, args |-> <<>>]
    ELSE LET r == to_args(nm.tokens, <<>>) IN
         [err |-> NoErr, tokens |-> r.tokens, stack |-> Append(stk, Token_To),
          ident |-> nm.exp, args |-> r.args]

\* fn build_to, up to its recursive call of build
build_to(toks, stk) ==
    LET nm == build_name(toks) IN
    IF nm.err.kind # "none"
    THEN [err |-> nm.err, tokens |-> nm.tokens, stack |-> stk,
          ident |-> NoExp, args |-> <<>>]
    ELSE LET r == to_args(nm.tokens, <<>>) IN
         [err |-> NoErr, tokens |-> r.tokens, stack |-> Append(stk, Token_To),
          ident |-> nm.exp, args |-> r.args]

\* pop_stack whose None arm does nothing
pop_stack_ignore_empty(open, close, stk) ==
    IF stk = <<>>
    THEN [err |-> NoErr, stack |-> stk]
    ELSE LET token == stk[Len(stk)]
             rest == SubSeq(stk, 1, Len(stk) - 1) IN
         IF token = open
         THEN [err |-> NoErr, stack |-> rest]
         ELSE [err |-> Panic("UnmatchedCloser", close, open.type), stack |-> rest]

\* pop_stack that pops without comparing the popped token with open
pop_stack_nocompare(open, close, stk) ==
    IF stk = <<>>
    THEN [err |-> Panic("UnmatchedCloser", close, open.type), stack |-> stk]
    ELSE [err |-> NoErr, stack |-> SubSeq(stk, 1, Len(stk) - 1)]

\* fn pop_stack
pop_stack(open, close, stk) ==
    IF stk = <<>>
    THEN [err |-> Panic("UnmatchedCloser", close, open.type), stack |-> stk]
    ELSE LET token == stk[Len(stk)]
             rest == SubSeq(stk, 1, Len(stk) - 1) IN
         IF token = open
         THEN [err |-> NoErr, stack |-> rest]
         ELSE [err |-> Panic("UnmatchedCloser", close, open.type), stack |-> rest]

\* main's match without the Some(Token::To) arm
main_check_no_to(stk) ==
    IF stk = <<>>
    THEN [err |-> NoErr, stack |-> stk]
    ELSE LET token == stk[Len(stk)]
             rest == SubSeq(stk, 1, Len(stk) - 1) IN
         IF token = Token_LBracket
         THEN [err |-> Panic("UnclosedBlock", NoToken, "]"), stack |-> rest]
         ELSE [err |-> NoErr, stack |-> rest]

\* main's match on stack.pop_back() after the top-level build has returned
main_check(stk) ==
    IF stk = <<>>
    THEN [err |-> NoErr, stack |-> stk]
    ELSE LET token == stk[Len(stk)]
             rest == SubSeq(stk, 1, Len(stk) - 1) IN
         CASE token = Token_LBracket ->
                [err |-> Panic("UnclosedBlock", NoToken, "]"), stack |-> rest]
           [] token = Token_To ->
                [err |-> Panic("UnclosedBlock", NoToken, "end"), stack |-> rest]
           [] OTHER -> [err |-> NoErr, stack |-> rest]

----------------------------------------------------------------------------
(* Activation frames of build.  A frame holds the local exps of one        *)
(* invocation and what its caller does with the returned vector.           *)

MainFrame == [exps |-> <<>>, ret |-> [kind |-> "main"]]
RepeatFrame(count) == [exps |-> <<>>, ret |-> [kind |-> "Repeat", count |-> count]]
ToFrame(ident, args) ==
    [exps |-> <<>>, ret |-> [kind |-> "To", ident |-> ident, args |-> args]]

\* exps.insert(0, e): the node goes to the front of the vector
push_exp_front(fs, e) ==
    [fs EXCEPT ![Len(fs)] = [@ EXCEPT !.exps = <<e>> \o @]]

\* exps.push(e) in the running (innermost) invocation
push_exp(fs, e) ==
    [fs EXCEPT ![Len(fs)] = [@ EXCEPT !.exps = Append(@, e)]]

\* the expression the caller of a returning build constructs
returned_node(f) ==
    IF f.ret.kind = "Repeat"
    THEN Expression_Repeat(f.ret.count, f.exps)
    ELSE Expression_To(f.ret.ident, f.ret.args, f.exps)

----------------------------------------------------------------------------
(* The lexer loop of main: each match of the regex, a sequence of          *)
(* characters, is classified into a token.                                 *)

Digits == {"0", "1", "2", "3", "4", "5", "6", "7", "8", "9"}

Letters ==
    {"a", "b", "c", "d", "e", "f", "g", "h", "i", "j", "k", "l", "m", "n", "o",
     "p", "q", "r", "s", "t", "u", "v", "w", "x", "y", "z",
     "A", "B", "C", "D", "E", "F", "G", "H", "I", "J", "K", "L", "M", "N", "O",
     "P", "Q", "R", "S", "T", "U", "V", "W", "X", "Y", "Z"}

DigitVal(c) ==
    CASE c = "0" -> 0 [] c = "1" -> 1 [] c = "2" -> 2 [] c = "3" -> 3
      [] c = "4" -> 4 [] c = "5" -> 5 [] c = "6" -> 6 [] c = "7" -> 7
      [] c = "8" -> 8 [] c = "9" -> 9

\* i32::MAX and i32::MIN
I32_MAX == 2147483647
I32_MIN == -I32_MAX - 1

\* the regex of main: does the whole of m match one of its alternatives
MatchesRegex(m) ==
    \/ \E k \in 0..(Len(m) - 1) :
         /\ \A i \in 1..k : m[i] = ":"
         /\ \A i \in (k + 1)..Len(m) : m[i] \in Letters \cup Digits
    \/ m \in {<<"[">>, <<"]">>, <<"<", "=">>, <<"<">>, <<">", "=">>, <<">">>,
              <<"=", "=">>, <<"!", "=">>, <<"!">>}

\* the digit loop of str::parse::<i32>: checked_mul(10), then checked_add
\* (checked_sub for a negative number) of the digit
RECURSIVE parse_digits(_, _, _)
parse_digits(s, acc, positive) ==
    IF s = <<>> THEN [ok |-> TRUE, n |-> acc, kind |-> ""]
    ELSE IF Head(s) \notin Digits THEN [ok |-> FALSE, n |-> 0, kind |-> "InvalidDigit"]
    ELSE LET d == DigitVal(Head(s)) IN
         IF positive
         THEN IF acc > I32_MAX \div 10 \/ acc * 10 > I32_MAX - d
              THEN [ok |-> FALSE, n |-> 0, kind |-> "PosOverflow"]
              ELSE parse_digits(Tail(s), acc * 10 + d, positive)
         ELSE IF -acc > I32_MAX \div 10 \/ acc * 10 < I32_MIN + d
              THEN [ok |-> FALSE, n |-> 0, kind |-> "NegOverflow"]
              ELSE parse_digits(Tail(s), acc * 10 - d, positive)

\* a parse that saturates at i32::MAX where the code fails on overflow
parse_i32_saturating(s) ==
    IF s = <<>> THEN [ok |-> FALSE, n |-> 0, kind |-> "Empty"]
    ELSE LET r == parse_digits(s, 0, TRUE) IN
         IF r.kind = "PosOverflow" THEN [ok |-> TRUE, n |-> I32_MAX, kind |-> ""] ELSE r

\* token.parse::<i32>()
parse_i32(s) ==
    IF s = <<>> THEN [ok |-> FALSE, n |-> 0, kind |-> "Empty"]
    ELSE IF Head(s) \in {"+", "-"}
    THEN IF Tail(s) = <<>>
         THEN [ok |-> FALSE, n |-> 0, kind |-> "InvalidDigit"]
         ELSE parse_digits(Tail(s), 0, Head(s) = "+")
    ELSE parse_digits(s, 0, TRUE)

\* the keyword arms of the match on the matched text
KeywordTable ==
    {<<<<"f", "o", "r", "w", "a", "r", "d">>, Token_Forward>>,
     <<<<"b", "a", "c", "k">>, Token_Back>>,
     <<<<"r", "i", "g", "h", "t">>, Token_Right>>,
     <<<<"l", "e", "f", "t">>, Token_Left>>,
     <<<<"r", "e", "p", "e", "a", "t">>, Token_Repeat>>,
     <<<<"[">>, Token_LBracket>>,
     <<<<"]">>, Token_RBracket>>,
     <<<<"t", "o">>, Token_To>>,
     <<<<"e", "n", "d">>, Token_End>>,
     <<<<"i", "f">>, Token_If>>,
     <<<<">">>, Token_Gtr>>,
     <<<<"<">>, Token_Less>>}

IsKeyword(m) == \E kw \in KeywordTable : kw[1] = m

\* the match expression pushed onto tokens for one matched text
lex_token(m) ==
    IF IsKeyword(m)
    THEN (CHOOSE kw \in KeywordTable : kw[1] = m)[2]
    ELSE LET p == parse_i32(m) IN
         IF p.ok THEN Token_Number(p.n)
         ELSE IF Head(m) = ":" THEN Token_Var(m)
         ELSE Token_Ident(m)

----------------------------------------------------------------------------
(* The token sequences main hands to build.                                *)

Alphabet ==
    {Token_Forward, Token_Back, Token_Right, Token_Left, Token_Repeat,
     Token_LBracket, Token_RBracket, Token_To, Token_End, Token_If, Token_Gtr,
     Token_Less, Token_Number(4), Token_Ident("square"), Token_Var(":side")}

\* every token sequence of at most MaxLen tokens
ShortSeqs == UNION {[1..n -> Alphabet] : n \in 0..MaxLen}

\* grammatical pieces of a program: commands, block openers, block closers
Chunks ==
    {<<Token_Forward, Token_Number(10)>>,
     <<Token_Right, Token_Var(":side")>>,
     <<Token_Repeat, Token_Number(4), Token_LBracket>>,
     <<Token_RBracket>>,
     <<Token_To, Token_Ident("square"), Token_Var(":side")>>,
     <<Token_End>>,
     <<Token_Ident("square"), Token_Number(5)>>}

RECURSIVE Flatten(_)
Flatten(cs) == IF cs = <<>> THEN <<>> ELSE Head(cs) \o Flatten(Tail(cs))

\* every concatenation of at most MaxChunks chunks, balanced or not
ChunkPrograms == {Flatten(cs) : cs \in UNION {[1..n -> Chunks] : n \in 0..MaxChunks}}

\* const SQUARE_CODE, tokenized
RectProgram ==
    <<Token_To, Token_Ident("rect"), Token_Var(":arg1"), Token_Var(":arg2"),
      Token_Repeat, Token_Number(2), Token_LBracket,
      Token_Forward, Token_Var(":arg1"), Token_Right, Token_Number(90),
      Token_Forward, Token_Var(":arg2"), Token_Right, Token_Number(90),
      Token_RBracket, Token_End,
      Token_Ident("rect"), Token_Number(10), Token_Number(20)>>

\* to square :side repeat 4 [ forward :side right 90 ] end square 5
SquareProgram ==
    <<Token_To, Token_Ident("square"), Token_Var(":side"),
      Token_Repeat, Token_Number(4), Token_LBracket,
      Token_Forward, Token_Var(":side"), Token_Right, Token_Number(90),
      Token_RBracket, Token_End,
      Token_Ident("square"), Token_Number(5)>>

\* forward 10 right 90 forward 10 right 90
RoundTripProgram ==
    <<Token_Forward, Token_Number(10), Token_Right, Token_Number(90),
      Token_Forward, Token_Number(10), Token_Right, Token_Number(90)>>

\* back :side left 90 back 10
BackLeftProgram ==
    <<Token_Back, Token_Var(":side"), Token_Left, Token_Number(90),
      Token_Back, Token_Number(10)>>

\* repeat 4 [ forward 10 right 90 ]
NestedProgram ==
    <<Token_Repeat, Token_Number(4), Token_LBracket,
      Token_Forward, Token_Number(10), Token_Right, Token_Number(90),
      Token_RBracket>>

\* repeat 1 [ ] repeat 1 [ ] repeat 1 [ ]
SiblingProgram ==
    <<Token_Repeat, Token_Number(1), Token_LBracket, Token_RBracket,
      Token_Repeat, Token_Number(1), Token_LBracket, Token_RBracket,
      Token_Repeat, Token_Number(1), Token_LBracket, Token_RBracket>>

\* repeat 4 forward 10
MissingBracketProgram ==
    <<Token_Repeat, Token_Number(4), Token_Forward, Token_Number(10)>>

\* forward 10 ]
ExtraCloserProgram == <<Token_Forward, Token_Number(10), Token_RBracket>>

Scenarios ==
    {RectProgram, SquareProgram, RoundTripProgram, BackLeftProgram, NestedProgram,
     SiblingProgram, MissingBracketProgram, ExtraCloserProgram}

Programs == ShortSeqs \cup ChunkPrograms \cup Scenarios

----------------------------------------------------------------------------
(* The state machine: main calls build(&mut tokens, &mut stack).           *)

Init ==
    /\ matches = <<>>
    /\ input \in Programs
    /\ tokens = input
    /\ stack = <<>>
    /\ frames = <<MainFrame>>
    /\ opened = <<>>
    /\ exps = <<>>
    /\ pc = "build"
    /\ err = NoErr

\* the loop of build is at its head with a token to pop
AtToken(types) ==
    /\ pc = "build"
    /\ tokens # <<>>
    /\ Head(tokens).type \in types

\* Token::Forward | Back | Right | Left => exps.push(Expression::K(build_var(tokens)))
BuildDirectional(k) ==
    /\ AtToken({k})
    /\ LET r == build_var(Tail(tokens)) IN
         /\ tokens' = r.tokens
         /\ IF r.err.kind = "none"
            THEN /\ frames' = push_exp(frames, Expression_Directional(k, r.exp))
                 /\ UNCHANGED <<pc, err>>
            ELSE /\ pc' = "panic"
                 /\ err' = r.err
                 /\ UNCHANGED frames
    /\ UNCHANGED <<matches, input, stack, opened, exps>>

BuildForward == BuildDirectional("Forward")
BuildBack == BuildDirectional("Back")
BuildRight == BuildDirectional("Right")
BuildLeft == BuildDirectional("Left")

\* Token::Repeat => exps.push(build_repeat(tokens, stack)): enters the nested build
BuildRepeat ==
    /\ AtToken({"Repeat"})
    /\ LET r == build_repeat(Tail(tokens), stack) IN
         /\ tokens' = r.tokens
         /\ stack' = r.stack
         /\ IF r.err.kind = "none"
            THEN /\ frames' = Append(frames, RepeatFrame(r.count))
                 /\ opened' = Append(opened, stack)
                 /\ UNCHANGED <<pc, err>>
            ELSE /\ pc' = "panic"
                 /\ err' = r.err
                 /\ UNCHANGED <<frames, opened>>
    /\ UNCHANGED <<matches, input, exps>>

\* Token::To => exps.push(build_to(tokens, stack)): enters the nested build
BuildTo ==
    /\ AtToken({"To"})
    /\ LET r == build_to(Tail(tokens), stack) IN
         /\ tokens' = r.tokens
         /\ stack' = r.stack
         /\ IF r.err.kind = "none"
            THEN /\ frames' = Append(frames, ToFrame(r.ident, r.args))
                 /\ opened' = Append(opened, stack)
                 /\ UNCHANGED <<pc, err>>
            ELSE /\ pc' = "panic"
                 /\ err' = r.err
                 /\ UNCHANGED <<frames, opened>>
    /\ UNCHANGED <<matches, input, exps>>

\* closer arms that drop the closer whatever pop_stack finds
BuildCloser_no_panic(open, close) ==
    /\ AtToken({close.type})
    /\ tokens' = Tail(tokens)
    /\ stack' = pop_stack(open, close, stack).stack
    /\ UNCHANGED <<matches, input, frames, opened, exps, pc, err>>

\* Token::RBracket / Token::End => pop_stack(open, close, stack); the loop goes on
BuildCloser(open, close) ==
    /\ AtToken({close.type})
    /\ LET r == pop_stack(open, close, stack) IN
         /\ tokens' = Tail(tokens)
         /\ stack' = r.stack
         /\ IF r.err.kind = "none"
            THEN UNCHANGED <<pc, err>>
            ELSE pc' = "panic" /\ err' = r.err
    /\ UNCHANGED <<matches, input, frames, opened, exps>>

BuildRBracket == BuildCloser(Token_LBracket, Token_RBracket)
BuildEnd == BuildCloser(Token_To, Token_End)

\* Token::Ident(x) => exps.push(build_call(tokens, x))
BuildIdent ==
    /\ AtToken({"Ident"})
    /\ LET r == build_call(Tail(tokens), Head(tokens).s) IN
         /\ tokens' = r.tokens
         /\ frames' = push_exp(frames, r.exp)
    /\ UNCHANGED <<matches, input, stack, opened, exps, pc, err>>

\* the _ arm as _ => {}: the token is dropped and the loop goes on
BuildUnexpected_skip ==
    /\ AtToken({"Number", "Var", "LBracket", "If", "Gtr", "Less"})
    /\ tokens' = Tail(tokens)
    /\ UNCHANGED <<matches, input, stack, frames, opened, exps, pc, err>>

\* _ => panic!("Unexpected token")
BuildUnexpected ==
    /\ AtToken({"Number", "Var", "LBracket", "If", "Gtr", "Less"})
    /\ tokens' = Tail(tokens)
    /\ pc' = "panic"
    /\ err' = Panic("UnexpectedToken", Head(tokens), "")
    /\ UNCHANGED <<matches, input, stack, frames, opened, exps>>

\* while !tokens.is_empty() ends in a nested build: it returns exps and
\* build_repeat / build_to construct the node, which the caller pushes
BuildReturn ==
    /\ pc = "build"
    /\ tokens = <<>>
    /\ Len(frames) > 1
    /\ frames' = push_exp(SubSeq(frames, 1, Len(frames) - 1),
                          returned_node(frames[Len(frames)]))
    /\ opened' = SubSeq(opened, 1, Len(opened) - 1)
    /\ UNCHANGED <<matches, input, tokens, stack, exps, pc, err>>

\* the top-level build returns: let exps = build(&mut tokens, &mut stack)
BuildReturnMain ==
    /\ pc = "build"
    /\ tokens = <<>>
    /\ Len(frames) = 1
    /\ exps' = frames[1].exps
    /\ frames' = <<>>
    /\ pc' = "main"
    /\ UNCHANGED <<matches, input, tokens, stack, opened, err>>

\* match stack.pop_back() in main, then the two println!
Main ==
    /\ pc = "main"
    /\ LET r == main_check(stack) IN
         /\ stack' = r.stack
         /\ IF r.err.kind = "none"
            THEN pc' = "done" /\ UNCHANGED err
            ELSE pc' = "panic" /\ err' = r.err
    /\ UNCHANGED <<matches, input, tokens, frames, opened, exps>>

Next ==
    \/ BuildForward
    \/ BuildBack
    \/ BuildRight
    \/ BuildLeft
    \/ BuildRepeat
    \/ BuildRBracket
    \/ BuildTo
    \/ BuildEnd
    \/ BuildIdent
    \/ BuildUnexpected
    \/ BuildReturn
    \/ BuildReturnMain
    \/ Main

Spec == Init /\ [][Next]_vars

\* the program runs to completion: a step that can be taken is taken
FairSpec == Spec /\ WF_vars(Next)

----------------------------------------------------------------------------
(* The whole of main, from the matches of the regex over the program text: *)
(* the lexer loop pushes one token per match, then build runs as above.    *)

\* texts the regex can match: the keywords, the operators, digit runs
\* around i32::MAX, sigil-prefixed and plain alphanumeric runs
MatchTexts ==
    {m \in {kw[1] : kw \in KeywordTable}
           \cup {<<"<", "=">>, <<">", "=">>, <<"=", "=">>, <<"!", "=">>, <<"!">>}
           \cup UNION {[1..n -> {":", "1", "a"}] : n \in 1..2}
           \cup {<<"0">>, <<"0", "0", "7">>, <<"9", "0">>,
                 <<"2", "1", "4", "7", "4", "8", "3", "6", "4", "7">>,
                 <<"2", "1", "4", "7", "4", "8", "3", "6", "4", "8">>,
                 <<"0", "2", "1", "4", "7", "4", "8", "3", "6", "4", "7">>,
                 <<"2", "1", "4", "7", "4", "8", "3", "6", "5", "0">>,
                 <<"3", "0", "0", "0", "0", "0", "0", "0", "0", "0">>,
                 <<"1", "0", "0", "0", "0", "0", "0", "0", "0", "0", "0">>,
                 <<":", "1", "0">>, <<":", ":", "a">>, <<"t", "o", "1">>,
                 <<":", "t", "o">>, <<"T", "o">>} :
       MatchesRegex(m)}

MatchSeqs == UNION {[1..n -> MatchTexts] : n \in 0..MaxMatches}

LexInit ==
    /\ matches \in MatchSeqs
    /\ input = <<>>
    /\ tokens = <<>>
    /\ stack = <<>>
    /\ frames = <<>>
    /\ opened = <<>>
    /\ exps = <<>>
    /\ pc = "lex"
    /\ err = NoErr

\* one iteration of the for loop: tokens.push_back(match token { ... })
LexToken ==
    /\ pc = "lex"
    /\ Len(tokens) < Len(matches)
    /\ tokens' = Append(tokens, lex_token(matches[Len(tokens) + 1]))
    /\ UNCHANGED <<matches, input, stack, frames, opened, exps, pc, err>>

\* the loop is over: let mut stack = VecDeque::new(); build(&mut tokens, &mut stack)
LexDone ==
    /\ pc = "lex"
    /\ Len(tokens) = Len(matches)
    /\ input' = tokens
    /\ stack' = <<>>
    /\ frames' = <<MainFrame>>
    /\ pc' = "build"
    /\ UNCHANGED <<matches, tokens, opened, exps, err>>

LexNext ==
    \/ LexToken
    \/ LexDone
    \/ Next

LexSpec == LexInit /\ [][LexNext]_vars

----------------------------------------------------------------------------
(* Vocabulary of the properties: what the input is, read off the token     *)
(* sequence alone.                                                         *)

IsOperand(t) == t.type \in {"Number", "Var"}

Last(s) == s[Len(s)]

RECURSIVE DropWhile(_, _)
DropWhile(s, types) ==
    IF s # <<>> /\ Head(s).type \in types THEN DropWhile(Tail(s), types) ELSE s

\* The openers left open at the end of a grammatical token sequence whose
\* closers each match the innermost open block; ok is FALSE when the
\* sequence is ungrammatical or a closer has no or the wrong opener.
RECURSIVE Residual(_, _)
Residual(s, open) ==
    IF s = <<>> THEN [ok |-> TRUE, open |-> open]
    ELSE LET t == Head(s).type
             r == Tail(s)
             bad == [ok |-> FALSE, open |-> <<>>] IN
         CASE t \in DirectionalTypes ->
                IF r # <<>> /\ IsOperand(r[1]) THEN Residual(Tail(r), open) ELSE bad
           [] t = "Repeat" ->
                IF Len(r) >= 2 /\ IsOperand(r[1]) /\ r[2].type = "LBracket"
                THEN Residual(SubSeq(r, 3, Len(r)), Append(open, "LBracket"))
                ELSE bad
           [] t = "To" ->
                IF r # <<>> /\ r[1].type = "Ident"
                THEN Residual(DropWhile(Tail(r), {"Var"}), Append(open, "To"))
                ELSE bad
           [] t = "RBracket" ->
                IF open # <<>> /\ Last(open) = "LBracket"
                THEN Residual(r, SubSeq(open, 1, Len(open) - 1)) ELSE bad
           [] t = "End" ->
                IF open # <<>> /\ Last(open) = "To"
                THEN Residual(r, SubSeq(open, 1, Len(open) - 1)) ELSE bad
           [] t = "Ident" -> Residual(DropWhile(r, {"Number", "Var"}), open)
           [] OTHER -> bad

\* grammatical, every [ and to closed by its own closer, correctly nested
GrammaticalBalanced(s) ==
    LET r == Residual(s, <<>>) IN r.ok /\ r.open = <<>>

\* grammatical, closers correctly nested, but some [ or to never closed
GrammaticalUnclosed(s) ==
    LET r == Residual(s, <<>>) IN r.ok /\ r.open # <<>>

Count(s, types) == Cardinality({i \in 1..Len(s) : s[i].type \in types})

\* only directional commands, each followed by its Number or Variable
DirectionalOnly(s) ==
    /\ Len(s) % 2 = 0
    /\ \A i \in 1..Len(s) :
         IF i % 2 = 1 THEN s[i].type \in DirectionalTypes ELSE IsOperand(s[i])

Leaf(t) == IF t.type = "Number" THEN Expression_Number(t.n) ELSE Expression_Var(t.s)

\* one directional node per command of a DirectionalOnly sequence, in order
DirectionalNodes(s) ==
    [i \in 1..(Len(s) \div 2) |-> [kind |-> s[2 * i - 1].type, arg |-> Leaf(s[2 * i])]]

\* repeat n [ c1 ... ck ] with directional commands and nothing after the ]
SingleRepeat(s) ==
    /\ Len(s) >= 4
    /\ s[1].type = "Repeat"
    /\ s[2].type = "Number"
    /\ s[3].type = "LBracket"
    /\ s[Len(s)].type = "RBracket"
    /\ DirectionalOnly(SubSeq(s, 4, Len(s) - 1))

Returned == pc \in {"main", "done"}

----------------------------------------------------------------------------
(* The properties.                                                         *)

SquareExpected ==
    <<Expression_To(Expression_Ident("square"), <<Expression_Var(":side")>>,
        <<Expression_Repeat(Expression_Number(4),
            <<Expression_Directional("Forward", Expression_Var(":side")),
              Expression_Directional("Right", Expression_Number(90))>>)>>),
      Expression_Call(Expression_Ident("square"), <<Expression_Number(5)>>)>>

\* C1: the build invocation that consumes a block's matching ] or end
\* returns to its caller, so the commands after the closer go to the
\* enclosing sequence: the square program parses to exactly the two
\* top-level nodes ProcedureDef(square, [:side], [Repeat(4, [Forward, Right])])
\* and Call(square, [5]).
C1_CloserReturnsToCaller ==
    (input = SquareProgram /\ Returned) => exps = SquareExpected

\* C2: a grammatical, balanced token sequence is parsed without failure:
\* the top-level build returns with every token consumed and the matching
\* stack empty, and the run completes.
C2_BalancedParses ==
    /\ [](GrammaticalBalanced(input) =>
            /\ pc # "panic"
            /\ (Returned => tokens = <<>> /\ stack = <<>>))
    /\ (GrammaticalBalanced(input) ~> pc = "done")

C2_Witness ==
    /\ input = SquareProgram
    /\ pc = "done"
    /\ tokens = <<>>
    /\ stack = <<>>

\* C3: a ] or end reached while the matching stack is empty makes parsing
\* fail at that token with UnmatchedCloser.
C3_ExtraCloserFails ==
    [][(AtToken({"RBracket", "End"}) /\ stack = <<>>) =>
         /\ pc' = "panic"
         /\ err'.kind = "UnmatchedCloser"
         /\ err'.token = Head(tokens)
         /\ tokens' = Tail(tokens)]_vars

C3_Witness ==
    /\ input = ExtraCloserProgram
    /\ pc = "panic"
    /\ err.kind = "UnmatchedCloser"
    /\ err.token = Token_RBracket
    /\ tokens = <<>>

C5_BodySelfContained ==
    [][(/\ GrammaticalBalanced(input)
        /\ pc = "build" /\ tokens = <<>> /\ Len(frames) > 1 /\ frames' # frames)
         => stack = Last(opened)]_vars

\* C6: a sequence of directional commands, each with its Number or
\* Variable, yields one directional node per command, of the same kind and
\* operand, in source order, and an empty residual matching stack.
C6_DirectionalSequence ==
    DirectionalOnly(input) =>
        /\ pc # "panic"
        /\ stack = <<>>
        /\ (Returned => exps = DirectionalNodes(input))

C6_Witness ==
    /\ input = RoundTripProgram
    /\ pc = "done"
    /\ Len(exps) = 4
    /\ exps[2] = Expression_Directional("Right", Expression_Number(90))

\* C7: repeat n [ c1 ... ck ] with directional commands and nothing after
\* the ] yields the single node Repeat(Number(n), [c1..ck]) and an empty
\* residual matching stack, LBracket having been pushed and popped once.
C7_SingleRepeat ==
    SingleRepeat(input) =>
        /\ pc # "panic"
        /\ Len(stack) <= 1
        /\ (Returned =>
              /\ stack = <<>>
              /\ exps = <<Expression_Repeat(Expression_Number(input[2].n),
                            DirectionalNodes(SubSeq(input, 4, Len(input) - 1)))>>)

C7_Witness ==
    /\ input = NestedProgram
    /\ pc = "done"
    /\ Len(exps) = 1
    /\ Len(exps[1].body) = 2
    /\ stack = <<>>

\* C8: after repeat and its count, a next token other than [ fails with
\* UnexpectedToken (expected [) on that token and exhausted input fails with
\* UnexpectedEndOfInput; no Repeat node is produced and no body is parsed.
C8_RepeatNeedsBracket ==
    [][(/\ AtToken({"Repeat"})
        /\ Len(tokens) >= 2
        /\ IsOperand(tokens[2])
        /\ (Len(tokens) >= 3 => tokens[3].type # "LBracket"))
         => /\ pc' = "panic"
            /\ frames' = frames
            /\ err'.expected = "["
            /\ IF Len(tokens) = 2
               THEN err'.kind = "UnexpectedEndOfInput" /\ tokens' = <<>>
               ELSE /\ err'.kind = "UnexpectedToken"
                    /\ err'.token = tokens[3]
                    /\ tokens' = SubSeq(tokens, 4, Len(tokens))]_vars

C8_Witness ==
    /\ input = MissingBracketProgram
    /\ pc = "panic"
    /\ err = Panic("UnexpectedToken", Token_Forward, "[")
    /\ tokens = <<Token_Number(10)>>
    /\ frames = <<MainFrame>>

\* C9: a ] reached while the top of the matching stack is To, or an end
\* reached while the top is LBracket, fails with UnmatchedCloser at that
\* token; a closer is accepted only when the popped entry is its own opener.
C9_WrongKindCloserFails ==
    [][AtToken({"RBracket", "End"}) =>
         LET own == IF Head(tokens).type = "RBracket" THEN Token_LBracket ELSE Token_To IN
         IF stack # <<>> /\ Last(stack) = own
         THEN pc' = "build" /\ stack' = SubSeq(stack, 1, Len(stack) - 1)
         ELSE /\ pc' = "panic"
              /\ err'.kind = "UnmatchedCloser"
              /\ err'.token = Head(tokens)]_vars

\* to square :side repeat 4 [ end
C9_Witness ==
    /\ input = <<Token_To, Token_Ident("square"), Token_Var(":side"),
                 Token_Repeat, Token_Number(4), Token_LBracket, Token_End>>
    /\ pc = "panic"
    /\ err.kind = "UnmatchedCloser"
    /\ err.token = Token_End
    /\ stack = <<Token_To>>

\* C10: the number of active build invocations is one plus the number of
\* blocks opened and not yet closed (the depth of the matching stack).
C10_RecursionDepth ==
    pc = "build" => Len(frames) = 1 + Len(stack)

\* the length of the maximal run of tokens of the given types at the front of s
RunLen(s, types) ==
    CHOOSE k \in 0..Len(s) :
        /\ \A i \in 1..k : s[i].type \in types
        /\ (k = Len(s) \/ s[k + 1].type \notin types)

\* the frames after the running invocation has pushed node e and nothing else
Pushed(e) ==
    /\ Len(frames') = Len(frames)
    /\ \A i \in 1..(Len(frames) - 1) : frames'[i] = frames[i]
    /\ frames'[Len(frames)].ret = frames[Len(frames)].ret
    /\ frames'[Len(frames)].exps = frames[Len(frames)].exps \o <<e>>

\* C11: Forward, Back, Right and Left consume exactly one following token:
\* a Number or Variable gives the directional node of the same kind around
\* that leaf and leaves the next token in the queue; any other token, or
\* exhausted input, fails expecting a variable and produces no node.
C11_DirectionalOperand ==
    [][AtToken(DirectionalTypes) =>
         LET k == Head(tokens).type
             r == Tail(tokens) IN
         IF r # <<>> /\ IsOperand(r[1])
         THEN /\ pc' = "build"
              /\ tokens' = Tail(r)
              /\ Pushed([kind |-> k, arg |-> Leaf(r[1])])
         ELSE /\ pc' = "panic"
              /\ err'.expected = "variable"
              /\ frames' = frames
              /\ IF r = <<>>
                 THEN err'.kind = "UnexpectedEndOfInput" /\ tokens' = <<>>
                 ELSE /\ err'.kind = "UnexpectedToken"
                      /\ err'.token = r[1]
                      /\ tokens' = Tail(r)]_vars

\* forward 10 has been parsed, right 90 ... is still in the queue
C11_Witness ==
    /\ input = RoundTripProgram
    /\ pc = "build"
    /\ frames = <<[exps |-> <<Expression_Directional("Forward", Expression_Number(10))>>,
                   ret |-> [kind |-> "main"]]>>
    /\ tokens = SubSeq(input, 3, 8)

\* C12: a To whose next token is not an Identifier (or is missing) fails
\* with the matching stack unchanged; otherwise To is pushed, the parameters
\* are exactly the maximal run of Variable tokens after the name, in order,
\* and the first non-Variable token stays in the queue for the body's build.
C12_ToNameAndParams ==
    [][AtToken({"To"}) =>
         LET r == Tail(tokens) IN
         IF r = <<>> \/ r[1].type # "Ident"
         THEN /\ pc' = "panic"
              /\ err'.expected = "identifier"
              /\ stack' = stack
              /\ frames' = frames
         ELSE LET rest == Tail(r)
                  k == RunLen(rest, {"Var"}) IN
              /\ pc' = "build"
              /\ stack' = stack \o <<Token_To>>
              /\ tokens' = SubSeq(rest, k + 1, Len(rest))
              /\ (tokens' # <<>> => Head(tokens').type # "Var")
              /\ Len(frames') = Len(frames) + 1
              /\ frames'[Len(frames')] =
                    [exps |-> <<>>,
                     ret |-> [kind |-> "To", ident |-> Expression_Ident(r[1].s),
                              args |-> [i \in 1..k |-> Expression_Var(rest[i].s)]]]]_vars

\* to rect :arg1 :arg2 has been parsed, the body's build sees repeat first
C12_Witness ==
    /\ input = RectProgram
    /\ pc = "build"
    /\ stack = <<Token_To>>
    /\ Len(frames) = 2
    /\ frames[2].ret.args = <<Expression_Var(":arg1"), Expression_Var(":arg2")>>
    /\ Head(tokens) = Token_Repeat

\* C13: an Identifier at command position gives Call(Identifier(name), args)
\* with args exactly the maximal run of Number or Variable tokens after it,
\* in order; the first other token stays in the queue, the call never
\* fails and the matching stack is unchanged.
C13_CallArguments ==
    [][AtToken({"Ident"}) =>
         LET r == Tail(tokens)
             k == RunLen(r, {"Number", "Var"}) IN
         /\ pc' = "build"
         /\ stack' = stack
         /\ tokens' = SubSeq(r, k + 1, Len(r))
         /\ Pushed([kind |-> "Call", ident |-> Expression_Ident(Head(tokens).s),
                    args |-> [i \in 1..k |-> Leaf(r[i])]])]_vars

\* square :side 4: the call takes :side and 4
C13_Witness ==
    /\ input = <<Token_Ident("square"), Token_Var(":side"), Token_Number(4)>>
    /\ pc = "build"
    /\ tokens = <<>>
    /\ frames[1].exps = <<Expression_Call(Expression_Ident("square"),
                            <<Expression_Var(":side"), Expression_Number(4)>>)>>

\* C14: a Number, Variable, LBracket, If, Gtr or Less at command position
\* fails with the unexpected-token error at that token.
C14_UnexpectedAtCommand ==
    [][AtToken({"Number", "Var", "LBracket", "If", "Gtr", "Less"}) =>
         /\ pc' = "panic"
         /\ err' = Panic("UnexpectedToken", Head(tokens), "")
         /\ tokens' = Tail(tokens)
         /\ frames' = frames
         /\ stack' = stack]_vars

\* forward 4 [
C14_Witness ==
    /\ input = <<Token_Forward, Token_Number(4), Token_LBracket>>
    /\ pc = "panic"
    /\ err = Panic("UnexpectedToken", Token_LBracket, "")
    /\ tokens = <<>>

IsSuffix(s, t) == \E k \in 0..Len(t) : s = SubSeq(t, k + 1, Len(t))

\* C15: parsing terminates, with a result or a failure, and never
\* backtracks: tokens leave the queue at the front only and are never put
\* back, the queue is always a suffix of the original sequence, every
\* iteration of build's loop consumes at least one token, and the greedy
\* parameter and argument loops stop at the first token they do not take.
C15_TerminatesNoBacktrack ==
    /\ <>(pc \in {"done", "panic"})
    /\ [](IsSuffix(tokens, input))
    /\ [][/\ IsSuffix(tokens', tokens)
          /\ (pc = "build" /\ tokens # <<>> => Len(tokens') < Len(tokens))
          /\ (AtToken({"Ident"}) =>
                Len(tokens) - Len(tokens') = 1 + RunLen(Tail(tokens), {"Number", "Var"}))
          /\ (AtToken({"To"}) /\ pc' = "build" =>
                Len(tokens) - Len(tokens') =
                    2 + RunLen(Tail(Tail(tokens)), {"Var"}))]_vars

\* the rect program has been parsed to its end through both greedy loops
C15_Witness ==
    /\ input = RectProgram
    /\ pc = "done"
    /\ tokens = <<>>
    /\ Len(exps) = 1

\* the tokens the lexer has pushed so far
Lexed == IF pc = "lex" THEN tokens ELSE input

AllDigits(m) == \A i \in 1..Len(m) : m[i] \in Digits

\* a digit run without its leading zeros
RECURSIVE StripZeros(_)
StripZeros(m) == IF m # <<>> /\ Head(m) = "0" THEN StripZeros(Tail(m)) ELSE m

I32MaxDigits == <<"2", "1", "4", "7", "4", "8", "3", "6", "4", "7">>

\* the value of the digit run m is above 2^31 - 1, compared digit by digit
ExceedsI32(m) ==
    LET z == StripZeros(m) IN
    \/ Len(z) > Len(I32MaxDigits)
    \/ /\ Len(z) = Len(I32MaxDigits)
       /\ \E i \in 1..Len(z) :
            /\ DigitVal(z[i]) > DigitVal(I32MaxDigits[i])
            /\ \A j \in 1..(i - 1) : z[j] = I32MaxDigits[j]

RECURSIVE Pow10(_)
Pow10(k) == IF k = 0 THEN 1 ELSE 10 * Pow10(k - 1)

\* the value of a digit run that does not exceed 2^31 - 1, place by place
RECURSIVE PlaceValue(_)
PlaceValue(z) ==
    IF z = <<>> THEN 0
    ELSE DigitVal(Head(z)) * Pow10(Len(z) - 1) + PlaceValue(Tail(z))

\* C16: each matched text is classified by the first applicable rule of:
\* keyword table, number parseable as a signed 32-bit integer, leading ":"
\* gives Variable with the sigil kept, otherwise Identifier.  A Number is
\* produced only for a digit run of value at most 2^31 - 1; a larger digit
\* run becomes an Identifier, and ":"-prefixed digits become a Variable.
C16_LexerClassification ==
    \A i \in 1..Len(Lexed) :
        LET m == matches[i]
            t == Lexed[i] IN
        /\ (t.type = "Number" => AllDigits(m) /\ ~ExceedsI32(m))
        /\ CASE IsKeyword(m) -> <<m, t>> \in KeywordTable
             [] ~IsKeyword(m) /\ AllDigits(m) /\ ~ExceedsI32(m) ->
                    t = Token_Number(PlaceValue(StripZeros(m)))
             [] ~IsKeyword(m) /\ AllDigits(m) /\ ExceedsI32(m) -> t = Token_Ident(m)
             [] ~IsKeyword(m) /\ ~AllDigits(m) /\ m[1] = ":" -> t = Token_Var(m)
             [] OTHER -> t = Token_Ident(m)

\* 2147483648 is lexed as an Identifier and :10 as a Variable
C16_Witness ==
    /\ matches = <<<<"2", "1", "4", "7", "4", "8", "3", "6", "4", "8">>,
                   <<":", "1", "0">>>>
    /\ pc = "lex"
    /\ tokens = <<Token_Ident(matches[1]), Token_Var(matches[2])>>

\* the token prefix consumed so far
Consumed == SubSeq(input, 1, Len(input) - Len(tokens))

\* the openers of the blocks opened and not yet closed in the token
\* sequence s: a repeat opens a [ block, a to opens a to block, and a ] or
\* end closes the innermost open block
RECURSIVE OpenBlocks(_, _)
OpenBlocks(s, open) ==
    IF s = <<>> THEN open
    ELSE LET t == Head(s).type IN
         OpenBlocks(Tail(s),
            CASE t = "Repeat" -> Append(open, Token_LBracket)
              [] t = "To" -> Append(open, Token_To)
              [] t \in {"RBracket", "End"} -> SubSeq(open, 1, Len(open) - 1)
              [] OTHER -> open)

\* C17: before any failure the matching stack holds only LBracket and To
\* entries and is, in order, the openers of the blocks opened and not yet
\* closed in the consumed prefix; it changes only by a push in the Repeat
\* and To cases and a pop in the RBracket and End cases.
C17_StackTracksOpenBlocks ==
    /\ [](pc \in {"build", "main"} =>
            /\ \A i \in 1..Len(stack) : stack[i] \in {Token_LBracket, Token_To}
            /\ stack = OpenBlocks(Consumed, <<>>))
    /\ [][(pc = "build" /\ pc' # "panic") =>
            CASE AtToken({"Repeat"}) -> stack' = stack \o <<Token_LBracket>>
              [] AtToken({"To"}) -> stack' = stack \o <<Token_To>>
              [] AtToken({"RBracket", "End"}) ->
                    stack # <<>> /\ stack' = SubSeq(stack, 1, Len(stack) - 1)
              [] OTHER -> stack' = stack]_vars

\* inside the repeat body of the square program, after forward :side
C17_Witness ==
    /\ input = SquareProgram
    /\ pc = "build"
    /\ stack = <<Token_To, Token_LBracket>>
    /\ Head(tokens) = Token_Right

\* The reference parser: build with a return right after a matched closer,
\* otherwise the same code.  Its state is the queue, the matching stack, the
\* number of active build invocations and the control position; trees are
\* left out.
RefReturn(st) ==
    IF st.depth > 1
    THEN [st EXCEPT !.depth = st.depth - 1]
    ELSE [st EXCEPT !.depth = 0, !.pc = "main"]

RefFail(st, toks, stk, e) ==
    [st EXCEPT !.tokens = toks, !.stack = stk, !.pc = "panic", !.err = e]

RefStep(st) ==
    IF st.pc = "main"
    THEN LET r == main_check(st.stack) IN
         IF r.err.kind = "none"
         THEN [st EXCEPT !.stack = r.stack, !.pc = "done"]
         ELSE RefFail(st, st.tokens, r.stack, r.err)
    ELSE IF st.tokens = <<>> THEN RefReturn(st)
    ELSE LET next == Head(st.tokens)
             rest == Tail(st.tokens) IN
         CASE next.type \in DirectionalTypes ->
                LET r == build_var(rest) IN
                IF r.err.kind = "none"
                THEN [st EXCEPT !.tokens = r.tokens]
                ELSE RefFail(st, r.tokens, st.stack, r.err)
           [] next.type = "Repeat" ->
                LET r == build_repeat(rest, st.stack) IN
                IF r.err.kind = "none"
                THEN [st EXCEPT !.tokens = r.tokens, !.stack = r.stack,
                                !.depth = st.depth + 1]
                ELSE RefFail(st, r.tokens, r.stack, r.err)
           [] next.type = "To" ->
                LET r == build_to(rest, st.stack) IN
                IF r.err.kind = "none"
                THEN [st EXCEPT !.tokens = r.tokens, !.stack = r.stack,
                                !.depth = st.depth + 1]
                ELSE RefFail(st, r.tokens, r.stack, r.err)
           [] next.type \in {"RBracket", "End"} ->
                LET r == IF next.type = "RBracket"
                         THEN pop_stack(Token_LBracket, Token_RBracket, st.stack)
                         ELSE pop_stack(Token_To, Token_End, st.stack) IN
                IF r.err.kind = "none"
                THEN RefReturn([st EXCEPT !.tokens = rest, !.stack = r.stack])
                ELSE RefFail(st, rest, r.stack, r.err)
           [] next.type = "Ident" ->
                [st EXCEPT !.tokens = build_call(rest, next.s).tokens]
           [] OTHER -> RefFail(st, rest, st.stack, Panic("UnexpectedToken", next, ""))

RECURSIVE RefRun(_)
RefRun(st) == IF st.pc \in {"done", "panic"} THEN st ELSE RefRun(RefStep(st))

RefResult(s) ==
    RefRun([tokens |-> s, stack |-> <<>>, depth |-> 1, pc |-> "build", err |-> NoErr])

\* C18: this parser and the reference parser that returns from build right
\* after a matched closer accept and reject the same token sequences, with
\* the same error at the same token and the same residual matching stack.
C18_SameVerdictAsReference ==
    pc \in {"done", "panic"} =>
        LET r == RefResult(input) IN
        /\ r.pc = pc
        /\ r.err = err
        /\ r.tokens = tokens
        /\ r.stack = stack

\* the square program is accepted by both, here with a one-node tree
C18_Witness ==
    /\ input = SquareProgram
    /\ pc = "done"
    /\ RefResult(input).pc = "done"
    /\ Len(exps) = 1
    /\ exps # SquareExpected

\* the token a leaf was built from
LeafToken(l) ==
    CASE l.kind = "Number" -> Token_Number(l.n)
      [] l.kind = "Var" -> Token_Var(l.s)
      [] l.kind = "Ident" -> Token_Ident(l.s)

RECURSIVE LeafTokens(_)
LeafTokens(ls) ==
    IF ls = <<>> THEN <<>> ELSE <<LeafToken(Head(ls))>> \o LeafTokens(Tail(ls))

\* pre-order traversal of a sequence of nodes, written as the command and
\* operand tokens visited: node, then parameters or arguments, then body
RECURSIVE PreOrder(_)
RECURSIVE NodeTokens(_)
NodeTokens(e) ==
    CASE e.kind \in DirectionalTypes -> <<[type |-> e.kind], LeafToken(e.arg)>>
      [] e.kind = "Repeat" -> <<Token_Repeat, LeafToken(e.count)>> \o PreOrder(e.body)
      [] e.kind = "To" ->
            <<Token_To, LeafToken(e.ident)>> \o LeafTokens(e.args) \o PreOrder(e.body)
      [] e.kind = "Call" -> <<LeafToken(e.ident)>> \o LeafTokens(e.args)

PreOrder(es) ==
    IF es = <<>> THEN <<>> ELSE NodeTokens(Head(es)) \o PreOrder(Tail(es))

IsBracketOrEnd(t) == t.type \in {"LBracket", "RBracket", "End"}

\* the command and operand tokens of a token sequence, in source order
CommandTokens(s) ==
    LET keep == {i \in 1..Len(s) : ~IsBracketOrEnd(s[i])}
        nth(j) == CHOOSE i \in keep : Cardinality({h \in keep : h < i}) = j - 1 IN
    [j \in 1..Cardinality(keep) |-> s[nth(j)]]

\* C19: on a successful parse no command is lost, duplicated or reordered:
\* the pre-order traversal of the returned tree visits one node per command
\* token of the input, in source order, each leaf with its token's payload.
C19_TreeKeepsCommands ==
    pc = "done" => PreOrder(exps) = CommandTokens(input)

\* the rect program: one top-level node holding all seven commands
C19_Witness ==
    /\ input = RectProgram
    /\ pc = "done"
    /\ Len(exps) = 1
    /\ Len(PreOrder(exps)) = 17

====
